---- MODULE Spec2Model ----
(***************************************************************************)
(* CRM backend (FastAPI): the token authority (app/routers/auth.py), the   *)
(* admin session boundary and the schema/query gateway                     *)
(* (app/routers/admin.py, app/routers/admin_simple.py) over the tables of  *)
(* app/models.py (app/db.py, create_sample_data.py, app/routers/clients.py,*)
(* app/routers/commissions.py).                                            *)
(*                                                                         *)
(* Text is a sequence of one-character strings, so that strip(), upper()   *)
(* and startswith() are computed character by character.  Time is counted  *)
(* in minutes.  An optional value is a sequence of length 0 or 1.          *)
(* A row is a record of its table's columns; a value read through a raw    *)
(* query is tagged with its Python type, so that str() is computed.        *)
(*                                                                         *)
(* Spec runs the authentication and admin endpoints together; SpecData     *)
(* runs the data path (browse, query, reflection, bulk read) with valid    *)
(* tokens, richer statements and storage faults; SpecToken runs            *)
(* create_access_token on its own over every expires_delta.                *)
(* SpecAccounts runs registrations, logins and the sample data script;     *)
(* SpecCrm runs create_client and create_commission; SpecRace serves        *)
(* register, create_client and get_table_data on two workers, each request *)
(* in two steps; SpecTerminal runs the terminal websocket step by step.     *)
(***************************************************************************)
EXTENDS Integers, Sequences, FiniteSets, TLC

VARIABLES
    dialect,    \* the storage engine DATABASE_URL selects (db.py)
    users,      \* committed rows of the users table, in insertion order
    clients,    \* committed rows of the clients table
    commissions, \* committed rows of the commissions table
    now,        \* datetime.utcnow(), in minutes
    tokens,     \* the access tokens issued so far (held by clients)
    req,        \* the last request
    resp,       \* its response
    calls,      \* the storage calls made while serving it, in order
    handlers,   \* the requests being served by the worker threads, step by step
    sessions,   \* the storage sessions that are open
    socket      \* the connection of the terminal websocket and its handler

vars == <<dialect, users, clients, commissions, now, tokens, req, resp, calls,
          handlers, sessions, socket>>

---------------------------------------------------------------------------
(* Bounds of the model *)

MaxTime == 31
MaxTokens == 2
MaxWorkers == 2
MaxCommissions == 2
MaxCycles == 3
\* created_at is the server default func.now(), read from the database
\* server's clock: the model holds that clock at one reading
ServerNow == 0

(* Program constants *)

ACCESS_TOKEN_EXPIRE_MINUTES == 30
DefaultExpireMinutes == 15
DefaultSkip == 0
DefaultLimit == 100
SampleCommissionCount == 25

SECRET_KEY == "your-secret-key-here"

---------------------------------------------------------------------------
(* Text *)

sp == <<" ">>
semi == <<";">>

UpperOf ==
    ("a" :> "A") @@ ("b" :> "B") @@ ("c" :> "C") @@ ("d" :> "D") @@
    ("e" :> "E") @@ ("f" :> "F") @@ ("g" :> "G") @@ ("h" :> "H") @@
    ("i" :> "I") @@ ("j" :> "J") @@ ("k" :> "K") @@ ("l" :> "L") @@
    ("m" :> "M") @@ ("n" :> "N") @@ ("o" :> "O") @@ ("p" :> "P") @@
    ("q" :> "Q") @@ ("r" :> "R") @@ ("s" :> "S") @@ ("t" :> "T") @@
    ("u" :> "U") @@ ("v" :> "V") @@ ("w" :> "W") @@ ("x" :> "X") @@
    ("y" :> "Y") @@ ("z" :> "Z")

IsSpace(c) == c \in {" ", "\t", "\n"}

\* str.upper()
upper(s) == [i \in 1..Len(s) |-> IF s[i] \in DOMAIN UpperOf THEN UpperOf[s[i]] ELSE s[i]]

RECURSIVE lstrip(_)
lstrip(s) == IF s # <<>> /\ IsSpace(Head(s)) THEN lstrip(Tail(s)) ELSE s

RECURSIVE rstrip(_)
rstrip(s) ==
    IF s # <<>> /\ IsSpace(s[Len(s)]) THEN rstrip(SubSeq(s, 1, Len(s) - 1)) ELSE s

\* str.strip()
\* a strip that trims nothing
NoStrip(s) == s

strip(s) == rstrip(lstrip(s))

\* str.startswith(prefix)
startswith(s, prefix) ==
    Len(s) >= Len(prefix) /\ SubSeq(s, 1, Len(prefix)) = prefix

kwSELECT == <<"S", "E", "L", "E", "C", "T">>
kwDELETE == <<"D", "E", "L", "E", "T", "E">>
kwCOMMIT == <<"C", "O", "M", "M", "I", "T">>
kwDROP == <<"D", "R", "O", "P">>
kwFROM == <<"F", "R", "O", "M">>
kwTABLE == <<"T", "A", "B", "L", "E">>
kwNULL == <<"N", "U", "L", "L">>
kwAS == <<"A", "S">>
idUSERS == <<"u", "s", "e", "r", "s">>

---------------------------------------------------------------------------
(* Schema and stored values: app/models.py *)

\* a column of a model: fk is the optional <<table, column>> of a ForeignKey
Column(name, type, nullable, primary_key, index, unique, fk) ==
    [name |-> name, type |-> type, nullable |-> nullable,
     primary_key |-> primary_key, index |-> index, unique |-> unique, fk |-> fk]

\* class User, class Client, class Commission
Schema(table_name) ==
    CASE table_name = "users" ->
           << Column("id", "INTEGER", FALSE, TRUE, TRUE, FALSE, <<>>),
              Column("email", "VARCHAR", FALSE, FALSE, TRUE, TRUE, <<>>),
              Column("name", "VARCHAR", FALSE, FALSE, FALSE, FALSE, <<>>),
              Column("hashed_password", "VARCHAR", FALSE, FALSE, FALSE, FALSE, <<>>),
              Column("is_active", "BOOLEAN", TRUE, FALSE, FALSE, FALSE, <<>>),
              Column("created_at", "DATETIME", TRUE, FALSE, FALSE, FALSE, <<>>) >>
      [] table_name = "clients" ->
           << Column("id", "INTEGER", FALSE, TRUE, TRUE, FALSE, <<>>),
              Column("name", "VARCHAR", FALSE, FALSE, FALSE, FALSE, <<>>),
              Column("email", "VARCHAR", TRUE, FALSE, TRUE, TRUE, <<>>),
              Column("phone", "VARCHAR", TRUE, FALSE, FALSE, FALSE, <<>>),
              Column("created_at", "DATETIME", TRUE, FALSE, FALSE, FALSE, <<>>) >>
      [] table_name = "commissions" ->
           << Column("id", "INTEGER", FALSE, TRUE, TRUE, FALSE, <<>>),
              Column("client_id", "INTEGER", FALSE, FALSE, FALSE, FALSE,
                     <<"clients", "id">>),
              Column("amount", "NUMERIC(12, 2)", FALSE, FALSE, FALSE, FALSE, <<>>),
              Column("source", "VARCHAR", TRUE, FALSE, FALSE, FALSE, <<>>),
              Column("created_at", "DATETIME", TRUE, FALSE, FALSE, FALSE, <<>>) >>
      [] OTHER -> <<>>

\* the column names of a table, in the order SELECT * returns them
ColumnNames(table_name) ==
    LET columns == Schema(table_name)
    IN [i \in DOMAIN columns |-> columns[i].name]

\* A value as the driver hands it to Python: optional, None being the empty
\* sequence.
NullValue == <<>>
IntValue(i) == <<[type |-> "int", int |-> i, text |-> ""]>>
StrValue(s) == <<[type |-> "str", int |-> 0, text |-> s]>>
BoolValue(b) == <<[type |-> "bool", int |-> IF b THEN 1 ELSE 0, text |-> ""]>>
\* a Numeric(12, 2), counted in hundredths
NumericValue(hundredths) == <<[type |-> "numeric", int |-> hundredths, text |-> ""]>>
\* a DateTime, counted in minutes after midnight of the first day
DateTimeValue(t) == <<[type |-> "datetime", int |-> t, text |-> ""]>>
\* an optional text column
OptionalStr(s) == IF s = <<>> THEN NullValue ELSE StrValue(s[1])

\* str.zfill(2) of a number below 100
TwoDigits(n) == IF n < 10 THEN "0" \o ToString(n) ELSE ToString(n)

\* Python's str() of a value that is not None
str(value) ==
    CASE value.type = "int" -> ToString(value.int)
      [] value.type = "str" -> value.text
      [] value.type = "bool" -> IF value.int = 1 THEN "True" ELSE "False"
      [] value.type = "numeric" ->
             ToString(value.int \div 100) \o "." \o TwoDigits(value.int % 100)
      [] value.type = "datetime" ->
             "1970-01-01 " \o TwoDigits(value.int \div 60) \o ":"
                 \o TwoDigits(value.int % 60) \o ":00"

\* str(value), of None too
JsonValueStrOfNone(value) == IF value = <<>> THEN <<"None">> ELSE <<str(value[1])>>

\* str(value) if value is not None else None
JsonValue(value) == IF value = <<>> THEN <<>> ELSE <<str(value[1])>>

\* row_dict[key] = value, the dict kept as its items in insertion order: a key
\* already present keeps its place and takes the new value
RECURSIVE DictSet(_, _, _)
DictSet(items, key, value) ==
    IF items = <<>> THEN <<[key |-> key, value |-> value]>>
    ELSE IF Head(items).key = key
         THEN <<[key |-> key, value |-> value]>> \o Tail(items)
         ELSE <<Head(items)>> \o DictSet(Tail(items), key, value)

\* for i, value in enumerate(row): if i < len(columns): row_dict[columns[i]] = ...
\* (get_table_data and get_all_database_data index without the test; their
\* rows are as long as the reflected column list)
RECURSIVE RowDict(_, _, _, _)
RowDict(columns, row, i, row_dict) ==
    IF i > Len(row) THEN row_dict
    ELSE IF i <= Len(columns)
         THEN RowDict(columns, row, i + 1,
                      DictSet(row_dict, columns[i], JsonValue(row[i])))
         ELSE RowDict(columns, row, i + 1, row_dict)

\* rows = [row_dict for row in result]
SerializeRows(columns, rows) ==
    [j \in DOMAIN rows |-> RowDict(columns, rows[j], 1, <<>>)]

---------------------------------------------------------------------------
(* Token authority: app/routers/auth.py *)

\* a digest that is the password itself
PlainPassword(password) == password

\* hashlib.sha256(password.encode()).hexdigest(), on the passwords of the model
get_password_hash(password) ==
    CASE password = "admin123" ->
           "240be518fabd2724ddb6f04eeb1da5967448d7e831c08c8fa822809f74c720a9"
      [] password = "Admin123" ->
           "3b612c75a7b5048a435fb6ec81e52ff92d6d795a8b5a9c17070f6a63c97a53b2"
      [] password = "password123" ->
           "ef92b778bafe771e89245b89ecbc08a44a4e166c06659911881f383d4473e94f"

verify_password(plain_password, hashed_password) ==
    get_password_hash(plain_password) = hashed_password

\* jwt.encode(claims, key): the signature is represented by the key that made it
jwt_encode(claims, key) == [sub |-> claims.sub, exp |-> claims.exp, key |-> key]

\* a decode that verifies the signature and never reads exp
jwt_decode_without_exp(token, key, t) ==
    IF token.key # key THEN [ok |-> FALSE, sub |-> <<>>]
    ELSE [ok |-> TRUE, sub |-> token.sub]

\* jwt.decode(token, key) of python-jose at time t: JWTError on a signature made
\* with another key, ExpiredSignatureError (a JWTError) when exp < t
jwt_decode(token, key, t) ==
    IF token.key # key THEN [ok |-> FALSE, sub |-> <<>>]
    ELSE IF token.exp < t THEN [ok |-> FALSE, sub |-> <<>>]
    ELSE [ok |-> TRUE, sub |-> token.sub]

\* a token that drops the claims it was given
create_access_token_without_data(data, expires_delta, t) ==
    LET expire == IF expires_delta # <<>> /\ expires_delta[1] # 0
                  THEN t + expires_delta[1]
                  ELSE t + DefaultExpireMinutes
    IN jwt_encode([sub |-> <<>>, exp |-> expire], SECRET_KEY)

\* expires_delta is optional; "if expires_delta:" is false for None and for a
\* zero timedelta
create_access_token(data, expires_delta, t) ==
    LET expire == IF expires_delta # <<>> /\ expires_delta[1] # 0
                  THEN t + expires_delta[1]
                  ELSE t + DefaultExpireMinutes
    IN jwt_encode([sub |-> data.sub, exp |-> expire], SECRET_KEY)

\* db.query(models.User).filter(models.User.email == email).first()
RECURSIVE FirstByEmail(_, _)
FirstByEmail(rows, email) ==
    IF rows = <<>> THEN <<>>
    ELSE IF Head(rows).email = email THEN <<Head(rows)>>
    ELSE FirstByEmail(Tail(rows), email)

\* a call on the storage engine: the table it names and its arguments (the text
\* of a raw query, or the numbers interpolated into a built one)
StorageCall(kind, table, args) == [kind |-> kind, table |-> table, args |-> args]

QueryUserByEmail == StorageCall("query_user_by_email", "users", <<>>)

\* the user, or <<>> for False
authenticate_user(rows, email, password) ==
    LET user == FirstByEmail(rows, email)
    IN IF user = <<>> THEN <<>>
       ELSE IF ~verify_password(password, user[1].hashed_password) THEN <<>>
       ELSE user

\* oauth2_scheme, then get_current_user: header is the optional bearer token.
\* The result names the storage calls made on the way.
get_current_user(header, rows, t) ==
    IF header = <<>>
    THEN [status |-> 401, detail |-> "Not authenticated", user |-> <<>>, calls |-> <<>>]
    ELSE LET payload == jwt_decode(header[1], SECRET_KEY, t)
             credentials_exception ==
                 [status |-> 401, detail |-> "Could not validate credentials",
                  user |-> <<>>]
         IN IF ~payload.ok \/ payload.sub = <<>>
            THEN credentials_exception @@ [calls |-> <<>>]
            ELSE LET user == FirstByEmail(rows, payload.sub[1])
                 IN IF user = <<>>
                    THEN credentials_exception @@ [calls |-> <<QueryUserByEmail>>]
                    ELSE [status |-> 200, detail |-> "", user |-> user,
                          calls |-> <<QueryUserByEmail>>]

\* both routers define it the same way
get_admin_user(header, rows, t) == get_current_user(header, rows, t)

---------------------------------------------------------------------------
(* Requests and responses *)

\* at: the time of the request; fault: the storage call that raises while the
\* request is served, if one does
Request(op, header, t) ==
    [op |-> op, header |-> header, at |-> t, email |-> "", password |-> "",
     query |-> <<>>, table |-> "", skip |-> <<>>, limit |-> <<>>,
     fault |-> <<>>, expires_delta |-> <<>>, client_id |-> <<>>]

\* content: what the caller is sent besides a status and an error detail
Response(status, detail, content) ==
    [status |-> status, detail |-> detail, content |-> content,
     token |-> <<>>, user |-> <<>>, showing |-> <<>>, total_count |-> <<>>,
     columns |-> <<>>, data |-> <<>>, row_count |-> <<>>, tables |-> <<>>]


---------------------------------------------------------------------------
(* Storage engine: the collaborator behind db.execute and inspect(engine) *)

\* inspector.get_table_names(): the tables of models.py
TableNames == <<"clients", "commissions", "users">>

Range(f) == {f[i] : i \in DOMAIN f}

\* the committed rows of the three tables
Store == [users |-> users, clients |-> clients, commissions |-> commissions]

\* the rows of a table
TableRows(table_name, store) ==
    IF table_name \in DOMAIN store THEN store[table_name] ELSE <<>>

\* The values of a row as a raw query returns them, in column order.  No
\* result processor runs on a text() query: SQLite hands a Boolean back as the
\* integer it stores, PostgreSQL as a bool.
RowValues(engine_dialect, table_name, row) ==
    CASE table_name = "users" ->
           << IntValue(row.id), StrValue(row.email), StrValue(row.name),
              StrValue(row.hashed_password),
              IF engine_dialect = "sqlite"
              THEN IntValue(IF row.is_active THEN 1 ELSE 0)
              ELSE BoolValue(row.is_active),
              DateTimeValue(row.created_at) >>
      [] table_name = "clients" ->
           << IntValue(row.id), StrValue(row.name), StrValue(row.email),
              OptionalStr(row.phone), DateTimeValue(row.created_at) >>
      [] table_name = "commissions" ->
           << IntValue(row.id), IntValue(row.client_id), NumericValue(row.amount),
              OptionalStr(row.source), DateTimeValue(row.created_at) >>

\* SELECT * FROM t on the given rows
SelectAll(engine_dialect, table_name, rows) ==
    [j \in DOMAIN rows |-> RowValues(engine_dialect, table_name, rows[j])]

Min(a, b) == IF a <= b THEN a ELSE b
Max(a, b) == IF a >= b THEN a ELSE b

\* the statements of a query text: split at ";", stripped, empty ones dropped
RECURSIVE SplitStatements(_, _)
SplitStatements(s, acc) ==
    LET stmt == IF strip(acc) = <<>> THEN <<>> ELSE <<strip(acc)>>
    IN IF s = <<>> THEN stmt
       ELSE IF Head(s) = ";" THEN stmt \o SplitStatements(Tail(s), <<>>)
       ELSE SplitStatements(Tail(s), Append(acc, Head(s)))

\* query texts
qSelect1 == kwSELECT \o sp \o <<"1">>
qSelectNull == kwSELECT \o sp \o kwNULL
qSelectTwoAs == kwSELECT \o sp \o <<"1">> \o sp \o kwAS \o sp \o <<"a", ",">>
                    \o sp \o <<"2">> \o sp \o kwAS \o sp \o <<"a">>
qSelectUsers == kwSELECT \o sp \o <<"*">> \o sp \o kwFROM \o sp \o idUSERS
qDeleteUsers == kwDELETE \o sp \o kwFROM \o sp \o idUSERS

\* the SQL the model's engine understands; any other statement is a syntax error
\* (keywords and unquoted names are read whatever their case)
KnownStatements ==
    << <<upper(qSelect1), "select_1">>, <<upper(qSelectNull), "select_null">>,
       <<upper(qSelectTwoAs), "select_two_as">>, <<upper(qSelectUsers), "select_users">>,
       <<upper(qDeleteUsers), "delete">>, <<kwCOMMIT, "commit">> >>

StatementKind(stmt) ==
    LET u == upper(stmt)
    IN IF \E i \in DOMAIN KnownStatements : KnownStatements[i][1] = u
       THEN KnownStatements[CHOOSE i \in DOMAIN KnownStatements :
                               KnownStatements[i][1] = u][2]
       ELSE "error"

\* the name the engine gives a result column that has no alias
UnnamedColumn(engine_dialect, expression) ==
    IF engine_dialect = "sqlite" THEN expression ELSE "?column?"

\* the result set of a SELECT: cursor.description and the rows; work is the
\* transaction's view of the users table
ResultSet(engine_dialect, kind, work) ==
    CASE kind = "select_1" ->
           [columns |-> <<UnnamedColumn(engine_dialect, "1")>>,
            rows |-> << <<IntValue(1)>> >>]
      [] kind = "select_null" ->
           [columns |-> <<UnnamedColumn(engine_dialect, "NULL")>>,
            rows |-> << <<NullValue>> >>]
      [] kind = "select_two_as" ->
           [columns |-> <<"a", "a">>,
            rows |-> << <<IntValue(1), IntValue(2)>> >>]
      [] kind = "select_users" ->
           [columns |-> ColumnNames("users"),
            rows |-> SelectAll(engine_dialect, "users", work)]

\* the outcome of db.execute and of reading the result: ok is false when an
\* exception was raised, message is str(e)
EngineResult(ok, committed, result_set, message) ==
    [ok |-> ok, committed |-> committed, returns_rows |-> result_set # <<>>,
     columns |-> IF result_set = <<>> THEN <<>> ELSE result_set[1].columns,
     rows |-> IF result_set = <<>> THEN <<>> ELSE result_set[1].rows,
     message |-> message]

\* The statements run in order inside the session's transaction: work is the
\* transaction's view of the users table, committed the committed rows.  An
\* error aborts the transaction.  The result set is the last statement's; a
\* statement that leaves none makes result.keys() raise.
RECURSIVE RunBatch(_, _, _, _)
RunBatch(engine_dialect, stmts, work, committed) ==
    IF stmts = <<>>
    THEN EngineResult(FALSE, committed, <<>>,
                      "This result object does not return rows")
    ELSE LET kind == StatementKind(Head(stmts))
             rest == Tail(stmts)
         IN CASE kind = "error" -> EngineResult(FALSE, committed, <<>>, "syntax error")
              [] kind = "delete" -> RunBatch(engine_dialect, rest, <<>>, committed)
              [] kind = "commit" -> RunBatch(engine_dialect, rest, work, work)
              [] OTHER ->
                    IF rest = <<>>
                    THEN EngineResult(TRUE, committed,
                                      <<ResultSet(engine_dialect, kind, work)>>, "")
                    ELSE RunBatch(engine_dialect, rest, work, committed)

\* db.execute(text(sql_query)) in a session that the handler never commits and
\* get_db closes (rolling back what is pending).  SQLite's driver executes one
\* statement per call and refuses a text holding more; PostgreSQL runs a
\* ";"-separated batch, and a COMMIT in the batch ends the session's transaction.
EngineExecute(engine_dialect, sql_query, user_rows) ==
    LET stmts == SplitStatements(sql_query, <<>>)
    IN IF engine_dialect = "sqlite" /\ Len(stmts) > 1
       THEN EngineResult(FALSE, user_rows, <<>>,
                         "You can only execute one statement at a time")
       ELSE RunBatch(engine_dialect, stmts, user_rows, user_rows)

\* the rows of a sequence from position skip + 1 on
Drop(rows, skip) == SubSeq(rows, skip + 1, Len(rows))
\* one row more than the limit
TakeOneMore(rows, limit) == SubSeq(rows, 1, Min(limit + 1, Len(rows)))
\* at most limit rows of a sequence
Take(rows, limit) == SubSeq(rows, 1, Min(limit, Len(rows)))

\* SELECT * FROM t LIMIT limit OFFSET skip on the rows of t.  SQLite reads a
\* negative LIMIT as no limit and a negative OFFSET as 0; PostgreSQL raises an
\* error for either.
EnginePage(engine_dialect, table_rows, limit, skip) ==
    IF limit < 0 \/ skip < 0
    THEN IF engine_dialect = "sqlite"
         THEN [ok |-> TRUE,
               rows |-> IF limit < 0 THEN Drop(table_rows, Max(0, skip))
                        ELSE Take(Drop(table_rows, Max(0, skip)), limit)]
         ELSE [ok |-> FALSE, rows |-> <<>>]
    ELSE [ok |-> TRUE, rows |-> Take(Drop(table_rows, skip), limit)]

---------------------------------------------------------------------------
(* Admin session boundary and query gateway:                               *)
(* app/routers/admin.py, app/routers/admin_simple.py                       *)

GetTableNames == StorageCall("get_table_names", "", <<>>)
GetColumns(table_name) == StorageCall("get_columns", table_name, <<>>)

\* db.execute(text(sql_query)) on the caller's text
Execute(sql_query) == StorageCall("execute", "", sql_query)

\* the response of a request the guard turned away
Denied(guard) == Response(guard.status, guard.detail, "none")

---------------------------------------------------------------------------
(* Inputs *)

Passwords == {"admin123", "password123"}
RegisterEmails == {"admin@crm.com"}
LoginEmails == {"admin@crm.com", "bob.wilson@crm.com", "ghost@crm.com"}
\* the clock jumps by a token lifetime, or just past one
TickSteps == {ACCESS_TOKEN_EXPIRE_MINUTES, ACCESS_TOKEN_EXPIRE_MINUTES + 1}

\* a token signed with a key that is not the server's
ForgedTokens ==
    {[sub |-> <<"admin@crm.com">>, exp |-> MaxTime + ACCESS_TOKEN_EXPIRE_MINUTES,
      key |-> "attacker-key"]}

Headers == {<<>>} \cup {<<t>> : t \in tokens \cup ForgedTokens}

---------------------------------------------------------------------------
(* State machine *)

\* a row of users: id is the next free integer key
UserRow(id, email, name, password, is_active, created_at) ==
    [id |-> id, email |-> email, name |-> name,
     hashed_password |-> get_password_hash(password),
     is_active |-> is_active, created_at |-> created_at]

\* a row of clients: phone is optional
ClientRow(id, name, email, phone, created_at) ==
    [id |-> id, name |-> name, email |-> email, phone |-> phone,
     created_at |-> created_at]

\* a row of commissions: amount in hundredths, source optional
CommissionRow(id, client_id, amount, source, created_at) ==
    [id |-> id, client_id |-> client_id, amount |-> amount, source |-> source,
     created_at |-> created_at]

\* the integer key the engine gives the next row of a table
NextId(rows) == IF rows = <<>> THEN 1 ELSE rows[Len(rows)].id + 1

\* the users of create_sample_data, inserted into an empty table
SampleUsers(t) ==
    << UserRow(1, "admin@crm.com", "Admin User", "admin123", TRUE, t),
       UserRow(2, "john.doe@crm.com", "John Doe", "password123", TRUE, t),
       UserRow(3, "jane.smith@crm.com", "Jane Smith", "password123", TRUE, t),
       UserRow(4, "bob.wilson@crm.com", "Bob Wilson", "password123", FALSE, t) >>

\* the clients of create_sample_data, as <<name, email, phone>>
SampleClientData ==
    << <<"Tech Corp", "contact@techcorp.com", "+1-555-0101">>,
       <<"Global Industries", "info@globalind.com", "+1-555-0102">>,
       <<"StartupXYZ", "hello@startupxyz.com", "+1-555-0103">>,
       <<"Enterprise Solutions", "sales@enterprise.com", "+1-555-0104">>,
       <<"Innovation Labs", "contact@innovlabs.com", "+1-555-0105">>,
       <<"Digital Dynamics", "team@digitaldyn.com", "+1-555-0106">>,
       <<"Future Systems", "info@futuresys.com", "+1-555-0107">>,
       <<"Alpha Technologies", "support@alphatech.com", "+1-555-0108">> >>

\* the sample clients, keyed from first_id on
SampleClients(first_id, t) ==
    [i \in DOMAIN SampleClientData |->
        ClientRow(first_id + i - 1, SampleClientData[i][1], SampleClientData[i][2],
                  <<SampleClientData[i][3]>>, t)]

commission_sources ==
    <<"Website Lead", "Referral", "Cold Call", "Social Media", "Email Campaign",
      "Conference">>

\* the sample commissions: seed stands for the state of random, from which
\* the client, the amount (100.00 to 5000.00) and the source of each are drawn
SampleCommissions(seed, client_ids, first_id, t) ==
    [i \in 1..SampleCommissionCount |->
        CommissionRow(first_id + i - 1,
                      client_ids[((seed * i) % Len(client_ids)) + 1],
                      10000 + ((seed * i * 7919) % 490001),
                      <<commission_sources[((seed + i) % Len(commission_sources)) + 1]>>,
                      t)]

\* the worker threads that serve requests side by side
Workers == 1..MaxWorkers

\* a worker with no request
Idle ==
    [op |-> "idle", pc |-> "idle", session |-> 0, header |-> <<>>, email |-> "",
     name |-> "", password |-> "", phone |-> <<>>, table |-> "", skip |-> <<>>,
     limit |-> <<>>, found |-> FALSE, page |-> <<>>, calls |-> <<>>]

\* no websocket was opened
NoSocket == [state |-> "none"]

Init ==
    /\ dialect \in {"sqlite", "postgresql"}
    /\ users = <<>>
    /\ clients = <<>>
    /\ commissions = <<>>
    /\ now = 0
    /\ tokens = {}
    /\ req = Request("startup", <<>>, 0)
    /\ resp = Response(200, "", "none")
    /\ calls = <<>>
    /\ handlers = [w \in Workers |-> Idle]
    /\ sessions = {}
    /\ socket = NoSocket

\* the clock advances
Tick(d) ==
    /\ now + d <= MaxTime
    /\ now' = now + d
    /\ UNCHANGED <<handlers, sessions, socket, dialect, users, tokens, req, resp, calls, clients, commissions>>

\* a storage call that raises: the table it is made for and its kind
Fault(table, call) == [table |-> table, call |-> call]

FaultAt(fault, table, call) == fault # <<>> /\ fault[1] = Fault(table, call)

\* python create_sample_data.py: nothing when users exist; else the users, the
\* clients and the commissions, each list committed on its own.  A commit
\* that raises (the fault, or a sample client whose email is already stored,
\* which breaks the unique index) is caught: the except branch rolls back
\* what was not committed and the script ends.
create_sample_data(seed, fault) ==
    LET new_clients == SampleClients(NextId(clients), ServerNow)
        client_ids == [i \in DOMAIN new_clients |-> new_clients[i].id]
        duplicate == \E i \in DOMAIN new_clients :
                        FirstByEmail(clients, new_clients[i].email) # <<>>
        count == StorageCall("count_users", "users", <<>>)
        commit == StorageCall("commit", "", <<>>)
        rollback == StorageCall("rollback", "", <<>>)
        add_users == <<StorageCall("insert_users", "users", <<>>)>>
        add_clients == <<StorageCall("insert_clients", "clients", <<>>)>>
        add_commissions ==
            <<StorageCall("insert_commissions", "commissions", <<>>)>>
    IN /\ req' = [Request("create_sample_data", <<>>, now) EXCEPT !.fault = fault]
       /\ resp' = Response(0, "", "none")
       /\ IF Len(users) > 0
          THEN /\ UNCHANGED <<users, clients, commissions>>
               /\ calls' = <<count>>
          ELSE IF FaultAt(fault, "users", "commit")
          THEN /\ UNCHANGED <<users, clients, commissions>>
               /\ calls' = <<count>> \o add_users \o <<rollback>>
          ELSE IF duplicate \/ FaultAt(fault, "clients", "commit")
          THEN /\ users' = SampleUsers(ServerNow)
               /\ UNCHANGED <<clients, commissions>>
               /\ calls' = <<count>> \o add_users \o <<commit>> \o add_clients
                             \o <<rollback>>
          ELSE IF FaultAt(fault, "commissions", "commit")
          THEN /\ users' = SampleUsers(ServerNow)
               /\ clients' = clients \o new_clients
               /\ UNCHANGED commissions
               /\ calls' = <<count>> \o add_users \o <<commit>> \o add_clients
                             \o <<commit>> \o add_commissions \o <<rollback>>
          ELSE /\ users' = SampleUsers(ServerNow)
               /\ clients' = clients \o new_clients
               /\ commissions' = commissions \o
                      SampleCommissions(seed, client_ids, NextId(commissions), ServerNow)
               /\ calls' = <<count>> \o add_users \o <<commit>> \o add_clients
                             \o <<commit>> \o add_commissions \o <<commit>>
       /\ UNCHANGED <<handlers, sessions, socket, dialect, now, tokens>>

\* a check that never finds the email
EmailRegisteredNever(rows, email) == FALSE

\* existing_user of register: a user with the email is stored
EmailRegistered(rows, email) == FirstByEmail(rows, email) # <<>>

\* POST /auth/register
register(email, name, password) ==
    LET user == UserRow(NextId(users), email, name, password, TRUE, ServerNow)
    IN /\ req' = [Request("register", <<>>, now) EXCEPT
                      !.email = email, !.password = password]
       /\ IF EmailRegistered(users, email)
          THEN /\ resp' = Response(400, "Email already registered", "none")
               /\ users' = users
               /\ calls' = <<QueryUserByEmail>>
          ELSE /\ users' = Append(users, user)
               /\ resp' = [Response(200, "", "json") EXCEPT !.user = <<user>>]
               /\ calls' = <<QueryUserByEmail,
                             StorageCall("insert_users", "users", <<>>),
                             StorageCall("commit", "", <<>>)>>
       /\ UNCHANGED <<handlers, sessions, socket, dialect, now, tokens, clients, commissions>>

\* POST /clients/
create_client(header, name, email, phone) ==
    LET guard == get_current_user(header, users, now)
        existing == StorageCall("query_client_by_email", "clients", <<>>)
    IN /\ req' = [Request("create_client", header, now) EXCEPT !.email = email]
       /\ IF guard.status # 200
          THEN /\ resp' = Denied(guard)
               /\ calls' = guard.calls
               /\ clients' = clients
          ELSE IF FirstByEmail(clients, email) # <<>>
          THEN /\ resp' = Response(400, "Client with this email already exists",
                                   "none")
               /\ calls' = guard.calls \o <<existing>>
               /\ clients' = clients
          ELSE /\ clients' = Append(clients,
                                    ClientRow(NextId(clients), name, email, phone, ServerNow))
               /\ resp' = Response(201, "", "json")
               /\ calls' = guard.calls \o
                     <<existing, StorageCall("insert_clients", "clients", <<>>),
                       StorageCall("commit", "", <<>>)>>
       /\ UNCHANGED <<handlers, sessions, socket, dialect, users, commissions, now, tokens>>

\* a login that tells an unknown email from a wrong password
LoginNamingCause(op, email, password) ==
    LET user == authenticate_user(users, email, password)
        access_token == create_access_token([sub |-> <<user[1].email>>],
                                            <<ACCESS_TOKEN_EXPIRE_MINUTES>>, now)
    IN /\ req' = [Request(op, <<>>, now) EXCEPT !.email = email, !.password = password]
       /\ calls' = <<QueryUserByEmail>>
       /\ IF user = <<>>
          THEN /\ resp' = Response(401, IF FirstByEmail(users, email) = <<>>
                                        THEN "Unknown email"
                                        ELSE "Incorrect password", "none")
               /\ tokens' = tokens
          ELSE /\ Cardinality(tokens \cup {access_token}) <= MaxTokens
               /\ tokens' = tokens \cup {access_token}
               /\ resp' = [Response(200, "", "json") EXCEPT
                               !.token = <<access_token>>, !.user = user]
       /\ UNCHANGED <<handlers, sessions, socket, dialect, users, now, clients, commissions>>

\* the body shared by POST /auth/token and POST /auth/signin
Login(op, email, password) ==
    LET user == authenticate_user(users, email, password)
        access_token == create_access_token([sub |-> <<user[1].email>>],
                                            <<ACCESS_TOKEN_EXPIRE_MINUTES>>, now)
    IN /\ req' = [Request(op, <<>>, now) EXCEPT !.email = email, !.password = password]
       /\ calls' = <<QueryUserByEmail>>
       /\ IF user = <<>>
          THEN /\ resp' = Response(401, "Incorrect email or password", "none")
               /\ tokens' = tokens
          ELSE /\ Cardinality(tokens \cup {access_token}) <= MaxTokens
               /\ tokens' = tokens \cup {access_token}
               /\ resp' = [Response(200, "", "json") EXCEPT
                               !.token = <<access_token>>, !.user = user]
       /\ UNCHANGED <<handlers, sessions, socket, dialect, users, now, clients, commissions>>

\* POST /auth/token
login_for_access_token(username, password) ==
    Login("login_for_access_token", username, password)

\* POST /auth/signin
signin(email, password) == Login("signin", email, password)


\* a handler that only reads: the guard, then a fixed list of storage calls
GuardedRead(op, header, content, storage_calls) ==
    LET guard == get_admin_user(header, users, now)
    IN /\ req' = Request(op, header, now)
       /\ IF guard.status # 200
          THEN /\ resp' = Denied(guard)
               /\ calls' = guard.calls
          ELSE /\ resp' = Response(200, "", content)
               /\ calls' = guard.calls \o storage_calls
       /\ UNCHANGED <<handlers, sessions, socket, dialect, users, now, tokens, clients, commissions>>

\* GET /admin/
admin_dashboard(header) == GuardedRead("admin_dashboard", header, "html", <<>>)

\* GET /admin/api/stats
get_dashboard_stats(header) ==
    GuardedRead("get_dashboard_stats", header, "json",
                <<StorageCall("count_users", "users", <<>>), StorageCall("count_active_users", "users", <<>>),
                  StorageCall("count_clients", "clients", <<>>), StorageCall("count_commissions", "commissions", <<>>),
                  StorageCall("sum_commissions", "commissions", <<>>), StorageCall("recent_users", "users", <<>>),
                  StorageCall("recent_clients", "clients", <<>>),
                  StorageCall("recent_commissions", "commissions", <<>>)>>)

\* the "default" of a reflected column: the text of the server default
ReflectedDefault(engine_dialect, column) ==
    IF column.name # "created_at" THEN <<>>
    ELSE IF engine_dialect = "sqlite" THEN <<"CURRENT_TIMESTAMP">> ELSE <<"now()">>

\* a descriptor that counts the rows of the table
TableDescriptorWithRowCount(engine_dialect, table_name) ==
    [columns |-> <<>>, foreign_keys |-> <<>>,
     indexes |-> <<Len(TableRows(table_name, Store))>>]

\* structure[table_name] of get_database_structure
TableDescriptor(engine_dialect, table_name) ==
    LET columns == Schema(table_name)
        IsForeignKey(col) == col.fk # <<>>
        IsIndexed(col) == col.index
    IN [columns |->
            [i \in DOMAIN columns |->
                [name |-> columns[i].name, type |-> columns[i].type,
                 nullable |-> columns[i].nullable,
                 primary_key |-> columns[i].primary_key,
                 default |-> ReflectedDefault(engine_dialect, columns[i])]],
        foreign_keys |->
            LET fks == SelectSeq(columns, IsForeignKey)
            IN [i \in DOMAIN fks |->
                   [constrained_columns |-> <<fks[i].name>>,
                    referred_table |-> fks[i].fk[1],
                    referred_columns |-> <<fks[i].fk[2]>>]],
        indexes |->
            LET idx == SelectSeq(columns, IsIndexed)
            IN [i \in DOMAIN idx |->
                   [name |-> "ix_" \o table_name \o "_" \o idx[i].name,
                    columns |-> <<idx[i].name>>, unique |-> idx[i].unique]]]

\* the loop of get_database_structure from table i on: the entries of
\* structure and the reflection calls.  There is no try: a call that raises
\* ends the loop and the request (raised).
RECURSIVE ReflectTables(_, _)
ReflectTables(i, fault) ==
    IF i > Len(TableNames) THEN [raised |-> FALSE, tables |-> <<>>, calls |-> <<>>]
    ELSE LET table_name == TableNames[i]
             rest == ReflectTables(i + 1, fault)
         IN IF FaultAt(fault, table_name, "get_columns")
            THEN [raised |-> TRUE, tables |-> <<>>, calls |-> <<GetColumns(table_name)>>]
            ELSE [raised |-> rest.raised,
                  tables |-> <<[table |-> table_name, error |-> <<>>,
                               descriptor |-> TableDescriptor(dialect, table_name)]>>
                             \o rest.tables,
                  calls |-> <<GetColumns(table_name),
                              StorageCall("get_foreign_keys", table_name, <<>>),
                              StorageCall("get_indexes", table_name, <<>>)>>
                            \o rest.calls]

\* GET /admin/api/database/structure
get_database_structure(header, fault) ==
    LET guard == get_admin_user(header, users, now)
        reflected == ReflectTables(1, fault)
    IN /\ req' = [Request("get_database_structure", header, now) EXCEPT
                      !.fault = fault]
       /\ IF guard.status # 200
          THEN /\ resp' = Denied(guard)
               /\ calls' = guard.calls
          ELSE IF reflected.raised
          THEN \* the exception leaves the handler
               /\ resp' = Response(500, "Internal Server Error", "none")
               /\ calls' = guard.calls \o <<GetTableNames>> \o reflected.calls
          ELSE /\ resp' = [Response(200, "", "json") EXCEPT
                               !.tables = reflected.tables]
               /\ calls' = guard.calls \o <<GetTableNames>> \o reflected.calls
       /\ UNCHANGED <<handlers, sessions, socket, dialect, users, now, tokens, clients, commissions>>

\* db.execute of f"SELECT * FROM {table_name} LIMIT {limit} OFFSET {skip}"
PageQuery(table_name, limit, skip) ==
    StorageCall("execute_select_page", table_name, <<limit, skip>>)

\* db.execute of f"SELECT COUNT(*) FROM {table_name}"
CountQuery(table_name) == StorageCall("execute_select_count", table_name, <<>>)

\* no validation of the table name
TableExistsUnchecked(table_name) == TRUE

\* table_name in inspector.get_table_names()
TableExists(table_name) == table_name \in Range(TableNames)

\* GET /admin/api/tables/{table_name}: skip_in and limit_in are the optional
\* query parameters
get_table_data(header, table_name, skip_in, limit_in) ==
    LET guard == get_admin_user(header, users, now)
        skip == IF skip_in = <<>> THEN DefaultSkip ELSE skip_in[1]
        limit == IF limit_in = <<>> THEN DefaultLimit ELSE limit_in[1]
        table_rows == TableRows(table_name, Store)
        result == EnginePage(dialect, table_rows, limit, skip)
        columns == ColumnNames(table_name)
        rows == SerializeRows(columns, SelectAll(dialect, table_name, result.rows))
    IN /\ req' = [Request("get_table_data", header, now) EXCEPT
                      !.table = table_name, !.skip = skip_in, !.limit = limit_in]
       /\ IF guard.status # 200
          THEN /\ resp' = Denied(guard)
               /\ calls' = guard.calls
          ELSE IF ~TableExists(table_name)
          THEN /\ resp' = Response(404, "Table not found", "none")
               /\ calls' = guard.calls \o <<GetTableNames>>
          ELSE IF ~result.ok
          THEN \* the engine's exception leaves the handler
               /\ resp' = Response(500, "Internal Server Error", "none")
               /\ calls' = guard.calls \o
                     <<GetTableNames, PageQuery(table_name, limit, skip)>>
          ELSE /\ resp' = [Response(200, "", "json") EXCEPT
                               !.columns = columns, !.data = rows,
                               !.total_count = <<Len(table_rows)>>,
                               !.showing = <<Len(rows)>>]
               /\ calls' = guard.calls \o
                     <<GetTableNames, PageQuery(table_name, limit, skip),
                       GetColumns(table_name), CountQuery(table_name)>>
       /\ UNCHANGED <<handlers, sessions, socket, dialect, users, now, tokens, clients, commissions>>

\* an answer that leaves the exception's text out
QueryExecutionErrorWithoutMessage(message) ==
    Response(400, "Query execution error", "none")

\* except Exception as e: 400 with the text of the exception
QueryExecutionError(message) ==
    Response(400, "Query execution error: " \o message, "none")

\* a gate that compares a truncated keyword
GateRejectsShortKeyword(sql_query) ==
    ~startswith(upper(sql_query), SubSeq(kwSELECT, 1, 3))

\* the read-only gate of execute_sql on the stripped query
GateRejects(sql_query) == ~startswith(upper(sql_query), kwSELECT)

\* POST /admin/api/sql/execute: query_in is the optional "query" of the body
execute_sql(header, query_in) ==
    LET guard == get_admin_user(header, users, now)
        sql_query == strip(IF query_in = <<>> THEN <<>> ELSE query_in[1])
        result == EngineExecute(dialect, sql_query, users)
        rows == SerializeRows(result.columns, result.rows)
    IN /\ req' = [Request("execute_sql", header, now) EXCEPT !.query = query_in]
       /\ IF guard.status # 200
          THEN /\ resp' = Denied(guard)
               /\ calls' = guard.calls
               /\ users' = users
          ELSE IF sql_query = <<>>
          THEN /\ resp' = Response(400, "Query cannot be empty", "none")
               /\ calls' = guard.calls
               /\ users' = users
          ELSE IF GateRejects(sql_query)
          THEN /\ resp' = Response(400, "Only SELECT queries are allowed", "none")
               /\ calls' = guard.calls
               /\ users' = users
          ELSE /\ calls' = guard.calls \o <<Execute(sql_query)>>
               /\ users' = result.committed
               /\ IF result.ok
                  THEN resp' = [Response(200, "", "json") EXCEPT
                                   !.columns = result.columns, !.data = rows,
                                   !.row_count = <<Len(rows)>>]
                  ELSE resp' = QueryExecutionError(result.message)
       /\ UNCHANGED <<handlers, sessions, socket, dialect, now, tokens, clients, commissions>>

\* GET /admin/api/users
get_all_users(header) ==
    GuardedRead("get_all_users", header, "json",
                <<StorageCall("page_users", "users", <<>>), StorageCall("count_users", "users", <<>>)>>)

\* GET /admin/api/commissions
get_all_commissions(header) ==
    GuardedRead("get_all_commissions", header, "json",
                <<StorageCall("page_commissions", "commissions", <<>>),
                  StorageCall("count_commissions", "commissions", <<>>)>>)

\* GET /admin/dashboard: no dependency, the header is not read
admin_dashboard_simple(header) ==
    /\ req' = Request("admin_dashboard_simple", header, now)
    /\ resp' = Response(200, "", "html")
    /\ calls' = <<>>
    /\ UNCHANGED <<handlers, sessions, socket, dialect, users, now, tokens, clients, commissions>>

\* all_data[table_name] when reading the table raised
ErrorEntry(table_name, message) ==
    [table |-> table_name, error |-> <<message>>, columns |-> <<>>, data |-> <<>>,
     count |-> 0]

\* The loop of get_all_database_data from table i on: the entries of all_data
\* and the storage calls.  Each table is read inside a try.  The reads share
\* the request's session: on PostgreSQL a statement that fails leaves the
\* session's transaction aborted, and every later statement of the request
\* fails too; inspector.get_columns uses a connection of its own.
RECURSIVE ReadTables(_, _, _)
ReadTables(i, fault, aborted) ==
    IF i > Len(TableNames) THEN [tables |-> <<>>, calls |-> <<>>]
    ELSE LET table_name == TableNames[i]
             select_all == StorageCall("execute_select_all", table_name, <<>>)
             column_names == ColumnNames(table_name)
             rows == SerializeRows(column_names,
                         SelectAll(dialect, table_name, TableRows(table_name, Store)))
             execute_raises == aborted \/ FaultAt(fault, table_name, "execute")
             rest == ReadTables(i + 1, fault,
                         aborted \/ (execute_raises /\ dialect = "postgresql"
                                        /\ ~FaultAt(fault, table_name, "get_columns")))
         IN IF FaultAt(fault, table_name, "get_columns")
            THEN [tables |-> <<ErrorEntry(table_name, "reflection failed")>>
                                \o rest.tables,
                  calls |-> <<GetColumns(table_name)>> \o rest.calls]
            ELSE IF execute_raises
            THEN [tables |-> <<ErrorEntry(table_name,
                                  IF aborted
                                  THEN "current transaction is aborted"
                                  ELSE "permission denied")>> \o rest.tables,
                  calls |-> <<GetColumns(table_name), select_all>> \o rest.calls]
            ELSE [tables |-> <<[table |-> table_name, error |-> <<>>,
                               columns |-> column_names, data |-> rows,
                               count |-> Len(rows)]>> \o rest.tables,
                  calls |-> <<GetColumns(table_name), select_all>> \o rest.calls]

\* GET /admin/api/all-data
get_all_database_data(header, fault) ==
    LET guard == get_admin_user(header, users, now)
        read == ReadTables(1, fault, FALSE)
    IN /\ req' = [Request("get_all_database_data", header, now) EXCEPT
                      !.fault = fault]
       /\ IF guard.status # 200
          THEN /\ resp' = Denied(guard)
               /\ calls' = guard.calls
          ELSE /\ resp' = [Response(200, "", "json") EXCEPT !.tables = read.tables]
               /\ calls' = guard.calls \o <<GetTableNames>> \o read.calls
       /\ UNCHANGED <<handlers, sessions, socket, dialect, users, now, tokens, clients, commissions>>

\* WS /admin/ws/terminal: accept(), then the first status message of the loop;
\* no dependency, the header is not read
terminal_websocket(header) ==
    /\ req' = Request("terminal_websocket", header, now)
    /\ resp' = Response(101, "", "text")
    /\ calls' = <<>>
    /\ UNCHANGED <<handlers, sessions, socket, dialect, users, now, tokens, clients, commissions>>

---------------------------------------------------------------------------
(* Inputs of the admin operations *)

Queries ==
    { qSelect1,
      <<" ", "\n">> \o <<"s", "e", "l", "e", "c", "t">> \o sp \o <<"1">> \o sp,
      kwSELECT \o <<"E", "D">> \o sp \o <<"1">>,
      <<"S", "E", "L">>,
      kwDROP \o sp \o kwTABLE \o sp \o idUSERS,
      qSelect1 \o semi \o sp \o qDeleteUsers,
      qSelect1 \o semi \o sp \o qDeleteUsers \o semi \o sp \o kwCOMMIT,
      <<" ", "\t">> }

\* the "query" field of the body, which may be missing
QueryInputs == {<<>>} \cup {<<q>> : q \in Queries}

BrowseTables == {"users", "users; DROP TABLE users"}
\* <<skip, limit>>, each optional
Paging == { <<<<>>, <<>>>>, <<<<>>, <<-1>>>>, <<<<-1>>, <<>>>>, <<<<1>>, <<1>>>> }

\* <<table_name, skip, limit>>: every paging of a known table, and an unknown
\* table
BrowseInputs ==
    {<<"users", pg[1], pg[2]>> : pg \in Paging}
    \cup {<<t, <<>>, <<>>>> : t \in BrowseTables}

\* the state of random when the sample commissions are drawn
FirstSeed == {1}
Seeds == FirstSeed \cup {2}
Names == {"New Admin"}

Next ==
    \/ \E d \in TickSteps : Tick(d)
    \/ \E seed \in FirstSeed : create_sample_data(seed, <<>>)
    \/ \E e \in RegisterEmails, n \in Names, p \in Passwords : register(e, n, p)
    \/ \E e \in LoginEmails, p \in Passwords : login_for_access_token(e, p)
    \/ \E e \in LoginEmails, p \in Passwords : signin(e, p)
    \/ \E h \in Headers : admin_dashboard(h)
    \/ \E h \in Headers : get_dashboard_stats(h)
    \/ \E h \in Headers : get_database_structure(h, <<>>)
    \/ \E h \in Headers, b \in BrowseInputs : get_table_data(h, b[1], b[2], b[3])
    \/ \E h \in Headers, q \in QueryInputs : execute_sql(h, q)
    \/ \E h \in Headers : get_all_users(h)
    \/ \E h \in Headers : get_all_commissions(h)
    \/ admin_dashboard_simple(<<>>)
    \/ \E h \in Headers : get_all_database_data(h, <<>>)
    \/ terminal_websocket(<<>>)

Spec == Init /\ [][Next]_vars

---------------------------------------------------------------------------
(* The data path: the store is filled, the administrator signs in, and the *)
(* schema and query operations are called with a valid token.              *)

DataQueries ==
    { qSelect1, qSelectNull, qSelectTwoAs, qSelectUsers,
      kwSELECT \o <<"E", "D">> \o sp \o <<"1">>,
      qSelectUsers \o semi \o sp \o qSelect1,
      qSelect1 \o semi \o sp \o qDeleteUsers \o semi \o sp \o kwCOMMIT }

\* the "query" field of the body: missing, empty, blank, or a statement
DataQueryInputs ==
    {<<>>, << <<>> >>, << <<" ", "\t">> >>, << <<"\n">> >>}
    \cup {<<q>> : q \in DataQueries}

\* <<table_name, skip, limit>>
DataBrowse ==
    {<<"users", pg[1], pg[2]>> : pg \in Paging}
    \cup { <<"users", <<>>, <<1>>>>, <<"users", <<2>>, <<3>>>>, <<"users", <<0>>, <<0>>>>,
           <<"users", <<5>>, <<2>>>>, <<"clients", <<>>, <<>>>>,
           <<"clients", <<8>>, <<1>>>>, <<"commissions", <<24>>, <<100>>>> }

\* the storage call that raises while the structure is reflected
ReflectFaults == {<<>>, <<Fault("commissions", "get_columns")>>}
\* the storage call that raises while all the tables are read
ReadFaults == ReflectFaults \cup {<<Fault("clients", "execute")>>}

ClientNames == {"Walk-in"}
ClientEmails == {"walkin@client.com"}
ClientPhones == {<<>>}

\* the tokens the server issued
IssuedHeaders == {<<t>> : t \in tokens}

NextData ==
    \/ \E seed \in Seeds : create_sample_data(seed, <<>>)
    \/ \E e \in RegisterEmails, n \in Names : register(e, n, "admin123")
    \/ signin("admin@crm.com", "admin123")
    \/ \E h \in IssuedHeaders, n \in ClientNames, e \in ClientEmails,
          ph \in ClientPhones : create_client(h, n, e, ph)
    \/ \E h \in IssuedHeaders, f \in ReflectFaults : get_database_structure(h, f)
    \/ \E h \in IssuedHeaders, b \in DataBrowse : get_table_data(h, b[1], b[2], b[3])
    \/ \E h \in IssuedHeaders, q \in DataQueryInputs : execute_sql(h, q)
    \/ \E h \in IssuedHeaders, f \in ReadFaults : get_all_database_data(h, f)

SpecData == Init /\ [][NextData]_vars

---------------------------------------------------------------------------
(* Vocabulary of the properties *)

\* the schema and query endpoints
SchemaQueryOps ==
    {"get_database_structure", "get_table_data", "execute_sql", "get_all_database_data"}

\* the operations that depend on get_admin_user
GuardedOps ==
    SchemaQueryOps \cup
    {"admin_dashboard", "get_dashboard_stats", "get_all_users", "get_all_commissions"}

\* every operation routed under the /admin prefix
AdminOps == GuardedOps \cup {"admin_dashboard_simple", "terminal_websocket"}

HasCall(kinds) == \E i \in DOMAIN calls : calls[i].kind \in kinds

\* the kinds of storage call that run a query
QueryCalls ==
    {"execute", "execute_select_page", "execute_select_count", "execute_select_all"}

\* the request carries a token the server signed
SignedToken(r) == r.header # <<>> /\ r.header[1].key = SECRET_KEY

\* the raw query of a request body ("" when the field is missing)
RawQuery(query_in) == IF query_in = <<>> THEN <<>> ELSE query_in[1]

kwSelectLower == <<"s", "e", "l", "e", "c", "t">>

\* the index of the first character of q that is not whitespace
FirstTextIndex(q) ==
    IF \A i \in DOMAIN q : IsSpace(q[i]) THEN Len(q) + 1
    ELSE CHOOSE i \in DOMAIN q : ~IsSpace(q[i]) /\ \A j \in 1..(i - 1) : IsSpace(q[j])

\* q, leading whitespace aside and whatever the case, begins with SELECT
BeginsWithSelect(q) ==
    LET k == FirstTextIndex(q)
    IN /\ k + 5 <= Len(q)
       /\ \A i \in 1..6 : q[k + i - 1] \in {kwSELECT[i], kwSelectLower[i]}

IsWordChar(c) ==
    \/ c \in DOMAIN UpperOf
    \/ c \in Range(UpperOf)
    \/ c \in {"0", "1", "2", "3", "4", "5", "6", "7", "8", "9", "_"}

\* the first word of q is the keyword SELECT, and is not a longer word
FirstKeywordIsSelect(q) ==
    LET k == FirstTextIndex(q)
    IN BeginsWithSelect(q) /\ (k + 6 > Len(q) \/ ~IsWordChar(q[k + 6]))

\* execute_sql answered with one of its two rejections
QueryRejected ==
    /\ resp.status = 400
    /\ resp.detail \in {"Query cannot be empty", "Only SELECT queries are allowed"}

---------------------------------------------------------------------------
(* Properties *)

C2_NoContentWithoutToken ==
    (/\ req.op \in AdminOps
     /\ \/ req.header = <<>>
        \/ ~SignedToken(req)
        \/ req.header[1].exp < req.at)
    => resp.content = "none"

\* C3: a query that, trimmed and whatever its case, does not begin with SELECT
\* is rejected with 400 by execute_sql and never handed to the engine.
C3_NonSelectRejected ==
    (/\ req.op = "execute_sql"
     /\ resp.status # 401
     /\ ~BeginsWithSelect(RawQuery(req.query)))
    => (QueryRejected /\ ~HasCall(QueryCalls) /\ ~HasCall({"commit"}))

\* an admitted caller's DROP TABLE was rejected by the gate
C3_Witness ==
    /\ req.op = "execute_sql"
    /\ req.query = <<kwDROP \o sp \o kwTABLE \o sp \o idUSERS>>
    /\ resp.status = 400
    /\ resp.detail = "Only SELECT queries are allowed"

\* C4: a statement whose first keyword is not exactly SELECT (a longer word
\* that starts with the letters SELECT included) is rejected with 400 by
\* execute_sql and never handed to the engine.
C4_FirstKeywordExactlySelect ==
    (/\ req.op = "execute_sql"
     /\ resp.status # 401
     /\ ~FirstKeywordIsSelect(RawQuery(req.query)))
    => (QueryRejected /\ ~HasCall(QueryCalls))
\* C5: a step of execute_sql or of get_table_data leaves the committed rows
\* of the store as they were, whatever query text passed the gate.
C5_ReadOnlyOpsKeepStore ==
    [][req'.op \in {"execute_sql", "get_table_data"} => users' = users]_vars

LoginOps == {"login_for_access_token", "signin"}

\* C6: for every Identity of the store and the password it was created with,
\* authenticate_user returns that Identity; a login answers with a token whose
\* subject is the email of the request; and every token issued validates,
\* before its expiry, to the Identity of the store with the token's email.
C6_LoginRoundTrip ==
    /\ (req.op \in LoginOps /\ resp.status = 200)
       => /\ resp.token # <<>>
          /\ resp.token[1].sub = <<req.email>>
          /\ resp.token[1].exp > req.at
          /\ resp.user # <<>>
          /\ resp.user[1].email = req.email
    /\ \A i \in DOMAIN users : \A p \in Passwords :
          users[i].hashed_password = get_password_hash(p)
          => LET user == authenticate_user(users, users[i].email, p)
             IN user # <<>> /\ user[1].email = users[i].email
    /\ \A tok \in tokens :
          (/\ tok.sub # <<>>
           /\ now < tok.exp
           /\ \E i \in DOMAIN users : users[i].email = tok.sub[1])
          => LET current == get_current_user(<<tok>>, users, now)
             IN /\ current.status = 200
                /\ current.user[1].email = tok.sub[1]

\* a token issued at login was accepted by the guard, before its expiry, on a
\* later request
C6_Witness ==
    /\ req.op \in GuardedOps
    /\ req.header # <<>>
    /\ req.header[1] \in tokens
    /\ req.at < req.header[1].exp
    /\ resp.status = 200

\* C7: a token presented at a time t >= its expires_at, t = expires_at
\* included, is answered 401 by the guard, valid signature or not.
C7_RejectedFromExpiryOn ==
    (/\ req.op \in GuardedOps
     /\ req.header # <<>>
     /\ req.at >= req.header[1].exp)
    => resp.status = 401

\* C8: a request the guard admitted carries the token of an Identity that is
\* active.
C8_AdmittedIdentityIsActive ==
    (/\ req.op \in GuardedOps
     /\ resp.status # 401)
    => \A i \in DOMAIN users :
          users[i].email = req.header[1].sub[1] => users[i].is_active

\* C9: get_table_data on a table name that is not in the live table list
\* answers 404 without a call that names the table and without running a
\* query; get_database_structure reflects only names of the live table list.
C9_UnknownTableNotQueried ==
    /\ (/\ req.op = "get_table_data"
        /\ resp.status # 401
        /\ req.table \notin Range(TableNames))
       => /\ resp.status = 404
          /\ resp.detail = "Table not found"
          /\ ~HasCall(QueryCalls)
          /\ \A i \in DOMAIN calls : calls[i].table # req.table
    /\ req.op = "get_database_structure"
       => \A i \in DOMAIN calls :
             calls[i].kind = "get_table_names" \/ calls[i].table \in Range(TableNames)
                \/ calls[i].kind = "query_user_by_email"

\* an admitted caller asked for a table that does not exist
C9_Witness ==
    /\ req.op = "get_table_data"
    /\ req.table \notin Range(TableNames)
    /\ resp.status = 404
    /\ HasCall({"get_table_names"})

\* C10: get_table_data uses limit = 100 and offset = 0 when they are not given,
\* and rejects a negative limit or a negative offset without running a query.
C10_PagingDefaultsAndBounds ==
    (/\ req.op = "get_table_data"
     /\ resp.status \notin {401, 404})
    => /\ (resp.status = 200 /\ req.limit = <<>>)
          => \E i \in DOMAIN calls :
                calls[i].kind = "execute_select_page" /\ calls[i].args[1] = 100
       /\ (resp.status = 200 /\ req.skip = <<>>)
          => \E i \in DOMAIN calls :
                calls[i].kind = "execute_select_page" /\ calls[i].args[2] = 0
       /\ (\/ (req.limit # <<>> /\ req.limit[1] < 0)
           \/ (req.skip # <<>> /\ req.skip[1] < 0))
          => (resp.status \in {400, 422} /\ ~HasCall(QueryCalls))

---------------------------------------------------------------------------
(* create_access_token on its own: every lifetime it can be given *)

\* a call of create_access_token(data={"sub": email}, expires_delta)
call_create_access_token(email, expires_delta) ==
    /\ req' = [Request("create_access_token", <<>>, now) EXCEPT
                   !.email = email, !.expires_delta = expires_delta]
    /\ resp' = [Response(0, "", "none") EXCEPT
                    !.token = <<create_access_token([sub |-> <<email>>],
                                                    expires_delta, now)>>]
    /\ calls' = <<>>
    /\ UNCHANGED <<handlers, sessions, socket, dialect, users, clients, commissions, now, tokens>>

\* timedelta(minutes=d), or None
ExpiresDeltas == {<<>>} \cup {<<d>> : d \in 0..MaxTime}

NextToken ==
    \/ \E d \in TickSteps : Tick(d)
    \/ \E e \in LoginEmails, d \in ExpiresDeltas : call_create_access_token(e, d)

SpecToken == Init /\ [][NextToken]_vars

---------------------------------------------------------------------------
(* Properties of the data path *)

\* the offset and the limit a get_table_data request asks for
RequestSkip == IF req.skip = <<>> THEN 0 ELSE req.skip[1]
RequestLimit == IF req.limit = <<>> THEN 100 ELSE req.limit[1]

\* C11: get_table_data on an existing table of N rows, with limit >= 0 and
\* offset >= 0, answers 200 with exactly min(limit, max(0, N - offset)) rows,
\* showing equal to that number and total_count equal to N.
C11_PageSizeAndTotal ==
    (/\ req.op = "get_table_data"
     /\ resp.status # 401
     /\ req.table \in Range(TableNames)
     /\ RequestSkip >= 0
     /\ RequestLimit >= 0)
    => LET N == Len(TableRows(req.table, Store))
           expected == Min(RequestLimit, Max(0, N - RequestSkip))
       IN /\ resp.status = 200
          /\ Len(resp.data) = expected
          /\ resp.showing = <<expected>>
          /\ resp.total_count = <<N>>

\* limit = 1 on the users table, which holds several rows, gave one row
C11_Witness ==
    /\ req.op = "get_table_data"
    /\ req.table = "users"
    /\ req.limit = <<1>>
    /\ Len(users) > 1
    /\ Len(resp.data) = 1
    /\ resp.total_count = <<Len(users)>>

\* the query of an execute_sql request as the gate sees it
GatedQuery == strip(RawQuery(req.query))

\* the execute calls made for the request
ExecuteCalls == {i \in DOMAIN calls : calls[i].kind = "execute"}

\* C12: when the engine raises on a query that passed the gate, execute_sql
\* answers 400 with the engine's message in the detail and no rows, and the
\* query was executed once.
C12_EngineErrorIs400 ==
    (/\ req.op = "execute_sql"
     /\ resp.status # 401
     /\ GatedQuery # <<>>
     /\ BeginsWithSelect(RawQuery(req.query))
     /\ ~EngineExecute(dialect, GatedQuery, users).ok)
    => /\ resp.status = 400
       /\ resp.detail = "Query execution error: "
                           \o EngineExecute(dialect, GatedQuery, users).message
       /\ resp.content = "none"
       /\ resp.data = <<>>
       /\ Cardinality(ExecuteCalls) = 1

\* the engine refused SELECTED 1 as a syntax error
C12_Witness ==
    /\ req.op = "execute_sql"
    /\ req.query = <<kwSELECT \o <<"E", "D">> \o sp \o <<"1">>>>
    /\ resp.status = 400
    /\ resp.detail = "Query execution error: syntax error"
    /\ Cardinality(ExecuteCalls) = 1

\* the keys of a serialized row, in order
RowKeys(row_dict) == [k \in DOMAIN row_dict |-> row_dict[k].key]

\* C13: every row of a successful execute_sql answer has exactly the columns
\* of "columns", in the same order, and row_count is the number of rows.
C13_RowsMatchColumns ==
    (req.op = "execute_sql" /\ resp.status = 200)
    => /\ \A j \in DOMAIN resp.data : RowKeys(resp.data[j]) = resp.columns
       /\ resp.row_count = <<Len(resp.data)>>

\* a serialized value is null exactly when the stored value is, and is the
\* string form of the stored value otherwise
ValueMatches(json, stored) ==
    /\ (json = <<>>) <=> (stored = <<>>)
    /\ stored # <<>> => json = <<str(stored[1])>>

\* every serialized row comes from the stored row at the same position, each
\* item from a value of a column of its name
RowsMatch(columns, data, stored_rows) ==
    /\ Len(data) = Len(stored_rows)
    /\ \A j \in DOMAIN data : \A k \in DOMAIN data[j] :
          \E i \in DOMAIN stored_rows[j] :
             /\ i \in DOMAIN columns
             /\ columns[i] = data[j][k].key
             /\ ValueMatches(data[j][k].value, stored_rows[j][i])

\* the rows of the page a get_table_data request names (SQLite's reading of
\* a negative offset or limit included)
RequestedPage ==
    LET after == Drop(TableRows(req.table, Store), Max(0, RequestSkip))
    IN IF RequestLimit < 0 THEN after ELSE Take(after, RequestLimit)

\* C14: in the rows of execute_sql, get_table_data and get_all_database_data
\* each value is null exactly when the stored value is null, and is the string
\* form of the stored value otherwise.
C14_ValuesAreStringsOrNull ==
    /\ (req.op = "get_table_data" /\ resp.status = 200)
       => RowsMatch(resp.columns, resp.data,
                    SelectAll(dialect, req.table, RequestedPage))
    /\ (req.op = "execute_sql" /\ resp.status = 200)
       => RowsMatch(resp.columns, resp.data,
                    EngineExecute(dialect, GatedQuery, users).rows)
    /\ (req.op = "get_all_database_data" /\ resp.status = 200)
       => \A t \in DOMAIN resp.tables :
             resp.tables[t].error = <<>>
             => RowsMatch(resp.tables[t].columns, resp.tables[t].data,
                          SelectAll(dialect, resp.tables[t].table,
                                    TableRows(resp.tables[t].table, Store)))

\* a client stored without a phone was browsed: its phone is null, its name
\* a string
C14_Witness ==
    /\ req.op = "get_table_data"
    /\ req.table = "clients"
    /\ resp.status = 200
    /\ \E j \in DOMAIN resp.data : \E k \in DOMAIN resp.data[j] :
          /\ resp.data[j][k].key = "phone"
          /\ resp.data[j][k].value = <<>>
          /\ clients[RequestSkip + j].phone = <<>>
          /\ resp.data[j][2].value = <<"Walk-in">>

\* C15: when reflecting or reading one table raises, get_database_structure
\* and get_all_database_data still answer 200 with one entry per known table:
\* an error marker for the table that raised, the normal entry for every other.
C15_FailingTableIsolated ==
    (/\ req.op \in {"get_database_structure", "get_all_database_data"}
     /\ resp.status # 401
     /\ req.fault # <<>>)
    => /\ resp.status = 200
       /\ Len(resp.tables) = Len(TableNames)
       /\ \A i \in DOMAIN resp.tables :
             /\ resp.tables[i].table = TableNames[i]
             /\ (resp.tables[i].error # <<>>) <=> (TableNames[i] = req.fault[1].table)

\* the structure get_database_structure returns in the current state
CurrentStructure == ReflectTables(1, <<>>).tables

\* C16: no step changes the structure get_database_structure returns (table
\* names and their descriptors), and every successful call returns it.
C16_StructureUnchangedByData ==
    [][/\ CurrentStructure' = CurrentStructure
       /\ (req'.op = "get_database_structure" /\ resp'.status = 200)
          => (/\ resp'.tables = CurrentStructure'
              /\ [i \in DOMAIN resp'.tables |-> resp'.tables[i].table] = TableNames)]_vars

\* the structure was returned after rows had been added to every table
C16_Witness ==
    /\ req.op = "get_database_structure"
    /\ resp.status = 200
    /\ Len(resp.tables) = Len(TableNames)
    /\ Len(users) > 0 /\ Len(clients) > 0 /\ Len(commissions) > 0

---------------------------------------------------------------------------
(* Properties of the token authority *)

\* the answer of a failed login
LoginFailure == Response(401, "Incorrect email or password", "none")

\* C17: a login with an unknown email and a login with a known email and a
\* wrong password fail alike: authenticate_user gives the same failure and
\* both login endpoints answer with the same status and message.
C17_LoginFailuresAlike ==
    (/\ req.op \in LoginOps
     /\ \/ FirstByEmail(users, req.email) = <<>>
        \/ FirstByEmail(users, req.email)[1].hashed_password
              # get_password_hash(req.password))
    => /\ authenticate_user(users, req.email, req.password) = <<>>
       /\ resp = LoginFailure

\* a known email was refused for its password, as an unknown email is
C17_Witness ==
    /\ req.op = "signin"
    /\ FirstByEmail(users, req.email) # <<>>
    /\ FirstByEmail(users, req.email)[1].hashed_password
          # get_password_hash(req.password)
    /\ authenticate_user(users, "ghost@crm.com", req.password) = <<>>
    /\ resp = LoginFailure

\* the token of the request is one validate_token accepts: signed by the
\* server, with a subject, not yet expired, its subject stored
ValidUnexpiredStored(r) ==
    /\ SignedToken(r)
    /\ r.header[1].sub # <<>>
    /\ r.header[1].exp > r.at
    /\ FirstByEmail(users, r.header[1].sub[1]) # <<>>

\* C18: the guard answers one and the same 401 for a token with a bad
\* signature, no subject, a passed expiry or a subject that is not stored, and
\* admits a request only for a signed, unexpired token with a stored subject
\* (the store read as it was when the request arrived: every step but a tick
\* of the clock serves a request).
C18_OneFailureOnlyValidAdmitted ==
    [][(/\ now' = now
        /\ req'.op \in GuardedOps
        /\ req'.header # <<>>)
       => /\ resp'.status = 200 => ValidUnexpiredStored(req')
          /\ ~ValidUnexpiredStored(req')
             => resp' = Response(401, "Could not validate credentials", "none")]_vars

\* C19: create_access_token stamps exp = now + expires_delta for every
\* expires_delta, zero included, and now + ACCESS_TOKEN_EXPIRE_MINUTES when
\* none is given.
C19_ExpiryIsNowPlusTtl ==
    req.op = "create_access_token"
    => resp.token[1].exp =
          req.at + (IF req.expires_delta = <<>> THEN ACCESS_TOKEN_EXPIRE_MINUTES
                    ELSE req.expires_delta[1])

\* C20: every token issued at a login is accepted at every time before its
\* expiry, whatever requests were served since; tokens of one Identity are
\* accepted side by side.
C20_TokenValidUntilExpiry ==
    \A tok \in tokens :
        now < tok.exp => get_current_user(<<tok>>, users, now).status = 200

---------------------------------------------------------------------------
(* The accounts: registrations and logins, one request at a time *)

AccountEmails == {"admin@crm.com", "new@crm.com"}

\* the commit of create_sample_data that raises, if one does
SampleFaults ==
    {<<>>} \cup {<<Fault(t, "commit")>> : t \in {"users", "clients", "commissions"}}

\* two passwords that differ in the case of one letter among them
AccountPasswords == Passwords \cup {"Admin123"}

NextAccounts ==
    \/ \E seed \in FirstSeed, f \in SampleFaults : create_sample_data(seed, f)
    \/ \E e \in AccountEmails, n \in Names, p \in AccountPasswords : register(e, n, p)
    \/ \E e \in AccountEmails, p \in AccountPasswords : login_for_access_token(e, p)
    \/ \E e \in AccountEmails, p \in AccountPasswords : signin(e, p)

SpecAccounts == Init /\ [][NextAccounts]_vars

---------------------------------------------------------------------------
(* Properties of the accounts *)

\* no two stored users have the same email
EmailsUnique(rows) ==
    \A i, j \in DOMAIN rows : rows[i].email = rows[j].email => i = j

\* C21: whatever registrations were served, no two stored users have the same
\* email, and a registration for an email that is already stored is answered
\* 400 and leaves the stored users as they were.
C21_EmailUniqueRegisterRefused ==
    /\ []EmailsUnique(users)
    /\ [][(req'.op = "register" /\ FirstByEmail(users, req'.email) # <<>>)
          => (resp'.status = 400 /\ users' = users)]_vars

\* a second registration of a stored email was refused beside another user
C21_Witness ==
    /\ req.op = "register"
    /\ resp = Response(400, "Email already registered", "none")
    /\ FirstByEmail(users, req.email) # <<>>
    /\ Len(users) >= 2

\* C22: a step of a login, of the guard or of an admin operation leaves the
\* stored users as they were; no step removes a stored user or changes one,
\* and only a registration (or the sample data script) adds one.
C22_OnlyRegisterChangesStore ==
    [][/\ req'.op \in LoginOps \cup AdminOps => users' = users
       /\ \A i \in DOMAIN users : i \in DOMAIN users' /\ users'[i] = users[i]
       /\ Len(users') > Len(users) => req'.op \in {"register", "create_sample_data"}]_vars

\* C23: verify_password(p, get_password_hash(q)) is true exactly when p = q,
\* get_password_hash gives one digest per password, and a registration that
\* succeeded stored the digest of its password, which is not the password.
C23_DigestStoredAndVerified ==
    /\ \A p, q \in AccountPasswords :
          /\ verify_password(p, get_password_hash(q)) <=> (p = q)
          /\ (get_password_hash(p) = get_password_hash(q)) <=> (p = q)
    /\ (req.op = "register" /\ resp.status = 200)
       => /\ users[Len(users)].email = req.email
          /\ users[Len(users)].hashed_password = get_password_hash(req.password)
    /\ \A i \in DOMAIN users : users[i].hashed_password \notin AccountPasswords

\* a registered user signed in: the stored digest was re-derived from the
\* password of the login
C23_Witness ==
    /\ req.op = "signin"
    /\ req.email = "new@crm.com"
    /\ req.password = "Admin123"
    /\ resp.status = 200
    /\ FirstByEmail(users, req.email)[1].hashed_password
          = "3b612c75a7b5048a435fb6ec81e52ff92d6d795a8b5a9c17070f6a63c97a53b2"

---------------------------------------------------------------------------
(* Properties of the query gateway *)

\* the body has no query, or a query of nothing but whitespace
BlankQuery(query_in) ==
    query_in = <<>> \/ \A i \in DOMAIN query_in[1] : IsSpace(query_in[1][i])

\* C24: execute_sql answers a request whose query is missing, empty or only
\* whitespace with 400 "Query cannot be empty" and hands nothing to the
\* engine.
C24_BlankQueryRejected ==
    (/\ req.op = "execute_sql"
     /\ resp.status # 401
     /\ BlankQuery(req.query))
    => /\ resp = Response(400, "Query cannot be empty", "none")
       /\ QueryRejected
       /\ ~HasCall(QueryCalls)

\* a query of a space and a tab, sent with a valid token, was rejected
C24_Witness ==
    /\ req.op = "execute_sql"
    /\ req.query = << <<" ", "\t">> >>
    /\ resp.status = 400
    /\ calls = <<QueryUserByEmail>>

\* a request with no query field, sent with a valid token, was rejected
C24_WitnessNoField ==
    /\ req.op = "execute_sql"
    /\ req.query = <<>>
    /\ resp.status = 400
    /\ calls = <<QueryUserByEmail>>

---------------------------------------------------------------------------
(* Requests served side by side.  A handler declared with def runs on a      *)
(* thread of the server's pool, and servers run side by side on one          *)
(* database: between two storage calls of one request, another request's     *)
(* commit can land.  A request is served in two steps, split where it waits   *)
(* for the storage engine after its first reads.                             *)

\* db = SessionLocal() of get_db: a session no request in flight holds
NewSession == CHOOSE id \in 1..(MaxWorkers + 1) : id \notin sessions

\* a get_db with no finally: the session is closed only when the request
\* raised nothing
get_db_exit_without_finally(open, id, raised) ==
    IF raised THEN open ELSE open \ {id}

\* finally: db.close() of get_db, whether the request raised or not
get_db_exit(open, id, raised) == open \ {id}

\* the unique index on email: a row with the email is committed
UniqueViolation(rows, email) == FirstByEmail(rows, email) # <<>>

\* the response of a request that ends: it becomes the last request served
Respond(request, response, storage_calls) ==
    /\ req' = request
    /\ resp' = response
    /\ calls' = storage_calls

\* an exception no handler catches: the server answers 500
Unhandled == Response(500, "Internal Server Error", "none")

\* POST /auth/register, up to existing_user: the session is opened and the
\* email is looked up
begin_register(w, email, name, password) ==
    /\ handlers[w].op = "idle"
    /\ handlers' = [handlers EXCEPT ![w] =
           [Idle EXCEPT !.op = "register", !.pc = "checked",
                        !.session = NewSession, !.email = email, !.name = name,
                        !.password = password,
                        !.found = EmailRegistered(users, email),
                        !.calls = <<QueryUserByEmail>>]]
    /\ sessions' = sessions \cup {NewSession}
    /\ UNCHANGED <<dialect, users, clients, commissions, now, tokens, req, resp,
                   calls, socket>>

\* POST /auth/register, from "if existing_user" on: 400, or db.add and
\* db.commit, where the unique index of users.email raises IntegrityError
\* when a user with the email was committed since the lookup
finish_register(w) ==
    LET h == handlers[w]
        user == UserRow(NextId(users), h.email, h.name, h.password, TRUE, ServerNow)
        request == [Request("register", <<>>, now) EXCEPT
                        !.email = h.email, !.password = h.password]
        insert == <<StorageCall("insert_users", "users", <<>>),
                    StorageCall("commit", "", <<>>)>>
    IN /\ h.op = "register"
       /\ h.pc = "checked"
       /\ IF h.found
          THEN /\ Respond(request, Response(400, "Email already registered", "none"),
                          h.calls)
               /\ users' = users
               /\ sessions' = get_db_exit(sessions, h.session, TRUE)
          ELSE IF UniqueViolation(users, h.email)
          THEN /\ Respond(request, Unhandled, h.calls \o insert)
               /\ users' = users
               /\ sessions' = get_db_exit(sessions, h.session, TRUE)
          ELSE /\ Respond(request,
                          [Response(200, "", "json") EXCEPT !.user = <<user>>],
                          h.calls \o insert)
               /\ users' = Append(users, user)
               /\ sessions' = get_db_exit(sessions, h.session, FALSE)
       /\ handlers' = [handlers EXCEPT ![w] = Idle]
       /\ UNCHANGED <<dialect, clients, commissions, now, tokens, socket>>

\* POST /clients/, up to existing: the session is opened, the guard runs, the
\* email is looked up.  A request the guard refuses ends here.
begin_create_client(w, header, name, email, phone) ==
    LET guard == get_current_user(header, users, now)
        existing == StorageCall("query_client_by_email", "clients", <<>>)
    IN /\ handlers[w].op = "idle"
       /\ IF guard.status # 200
          THEN /\ Respond([Request("create_client", header, now) EXCEPT
                               !.email = email],
                          Denied(guard), guard.calls)
               /\ sessions' = get_db_exit(sessions \cup {NewSession}, NewSession, TRUE)
               /\ handlers' = handlers
          ELSE /\ handlers' = [handlers EXCEPT ![w] =
                      [Idle EXCEPT !.op = "create_client", !.pc = "checked",
                                   !.session = NewSession, !.header = header,
                                   !.email = email, !.name = name, !.phone = phone,
                                   !.found = FirstByEmail(clients, email) # <<>>,
                                   !.calls = guard.calls \o <<existing>>]]
               /\ sessions' = sessions \cup {NewSession}
               /\ UNCHANGED <<req, resp, calls>>
       /\ UNCHANGED <<dialect, users, clients, commissions, now, tokens, socket>>

\* POST /clients/, from "if existing" on: 400, or db.add and db.commit, where
\* the unique index of clients.email raises IntegrityError when a client with
\* the email was committed since the lookup
finish_create_client(w) ==
    LET h == handlers[w]
        request == [Request("create_client", h.header, now) EXCEPT !.email = h.email]
        insert == <<StorageCall("insert_clients", "clients", <<>>),
                    StorageCall("commit", "", <<>>)>>
    IN /\ h.op = "create_client"
       /\ h.pc = "checked"
       /\ IF h.found
          THEN /\ Respond(request,
                          Response(400, "Client with this email already exists",
                                   "none"),
                          h.calls)
               /\ clients' = clients
               /\ sessions' = get_db_exit(sessions, h.session, TRUE)
          ELSE IF UniqueViolation(clients, h.email)
          THEN /\ Respond(request, Unhandled, h.calls \o insert)
               /\ clients' = clients
               /\ sessions' = get_db_exit(sessions, h.session, TRUE)
          ELSE /\ Respond(request, Response(201, "", "json"), h.calls \o insert)
               /\ clients' = Append(clients,
                                    ClientRow(NextId(clients), h.name, h.email,
                                              h.phone, ServerNow))
               /\ sessions' = get_db_exit(sessions, h.session, FALSE)
       /\ handlers' = [handlers EXCEPT ![w] = Idle]
       /\ UNCHANGED <<dialect, users, commissions, now, tokens, socket>>

\* GET /admin/api/tables/{table_name}, up to the page query: the session is
\* opened, the guard runs, the table name is checked, the page is read.  A
\* request that is refused, or whose page query raises, ends here.
begin_get_table_data(w, header, table_name, skip_in, limit_in) ==
    LET guard == get_admin_user(header, users, now)
        skip == IF skip_in = <<>> THEN DefaultSkip ELSE skip_in[1]
        limit == IF limit_in = <<>> THEN DefaultLimit ELSE limit_in[1]
        result == EnginePage(dialect, TableRows(table_name, Store), limit, skip)
        request == [Request("get_table_data", header, now) EXCEPT
                        !.table = table_name, !.skip = skip_in, !.limit = limit_in]
        ended == sessions' = get_db_exit(sessions \cup {NewSession}, NewSession, TRUE)
    IN /\ handlers[w].op = "idle"
       /\ IF guard.status # 200
          THEN /\ Respond(request, Denied(guard), guard.calls)
               /\ ended
               /\ handlers' = handlers
          ELSE IF ~TableExists(table_name)
          THEN /\ Respond(request, Response(404, "Table not found", "none"),
                          guard.calls \o <<GetTableNames>>)
               /\ ended
               /\ handlers' = handlers
          ELSE IF ~result.ok
          THEN /\ Respond(request, Unhandled,
                          guard.calls \o
                          <<GetTableNames, PageQuery(table_name, limit, skip)>>)
               /\ ended
               /\ handlers' = handlers
          ELSE /\ handlers' = [handlers EXCEPT ![w] =
                      [Idle EXCEPT !.op = "get_table_data", !.pc = "paged",
                                   !.session = NewSession, !.header = header,
                                   !.table = table_name, !.skip = skip_in,
                                   !.limit = limit_in, !.page = result.rows,
                                   !.calls = guard.calls \o
                                       <<GetTableNames,
                                         PageQuery(table_name, limit, skip)>>]]
               /\ sessions' = sessions \cup {NewSession}
               /\ UNCHANGED <<req, resp, calls>>
       /\ UNCHANGED <<dialect, users, clients, commissions, now, tokens, socket>>

\* a count read from a snapshot that misses the last row committed
CountRowsOneBehind(table_name) == Max(0, Len(TableRows(table_name, Store)) - 1)

\* SELECT COUNT(*) FROM table_name, on the rows committed when it runs
CountRows(table_name) == Len(TableRows(table_name, Store))

\* GET /admin/api/tables/{table_name}, from inspector.get_columns on: the
\* rows are converted, the count query runs, the response is built
finish_get_table_data(w) ==
    LET h == handlers[w]
        columns == ColumnNames(h.table)
        rows == SerializeRows(columns, SelectAll(dialect, h.table, h.page))
        request == [Request("get_table_data", h.header, now) EXCEPT
                        !.table = h.table, !.skip = h.skip, !.limit = h.limit]
    IN /\ h.op = "get_table_data"
       /\ h.pc = "paged"
       /\ Respond(request,
                  [Response(200, "", "json") EXCEPT
                       !.columns = columns, !.data = rows,
                       !.total_count = <<CountRows(h.table)>>,
                       !.showing = <<Len(rows)>>],
                  h.calls \o <<GetColumns(h.table), CountQuery(h.table)>>)
       /\ sessions' = get_db_exit(sessions, h.session, FALSE)
       /\ handlers' = [handlers EXCEPT ![w] = Idle]
       /\ UNCHANGED <<dialect, users, clients, commissions, now, tokens, socket>>

\* the emails of the requests that race, and what is browsed meanwhile
RaceEmails == {"new@crm.com"}
RaceClientEmails == {"walkin@client.com", "second@client.com"}
RaceBrowse ==
    { <<"clients", <<>>, <<>>>>, <<"clients", <<1>>, <<1>>>>,
      <<"clients", <<-1>>, <<>>>>, <<"nowhere", <<>>, <<>>>> }

\* the bearer tokens that are sent: none, issued ones, a forged one
RaceHeaders == {<<>>} \cup {<<t>> : t \in tokens \cup ForgedTokens}

NextRace ==
    \/ \E e \in RegisterEmails, n \in Names : register(e, n, "admin123")
    \/ signin("admin@crm.com", "admin123")
    \/ \E w \in Workers, e \in RaceEmails, n \in Names :
          begin_register(w, e, n, "password123")
    \/ \E w \in Workers : finish_register(w)
    \/ \E w \in Workers, h \in RaceHeaders, n \in ClientNames,
          e \in RaceClientEmails, ph \in ClientPhones :
          begin_create_client(w, h, n, e, ph)
    \/ \E w \in Workers : finish_create_client(w)
    \/ \E w \in Workers, h \in RaceHeaders, b \in RaceBrowse :
          begin_get_table_data(w, h, b[1], b[2], b[3])
    \/ \E w \in Workers : finish_get_table_data(w)

SpecRace == Init /\ [][NextRace]_vars

---------------------------------------------------------------------------
(* Properties of requests served side by side *)

\* C25: however register calls for one email (or create_client calls for one
\* email) overlap, the email is stored at most once and every call that did
\* not store it is answered 400; none ends in an unhandled storage error.
C25_RacingCreatesAnswered400 ==
    /\ EmailsUnique(users)
    /\ EmailsUnique(clients)
    /\ req.op = "register"
       => \/ resp.status = 200
          \/ resp = Response(400, "Email already registered", "none")
    /\ (req.op = "create_client" /\ resp.status # 401)
       => \/ resp.status = 201
          \/ resp = Response(400, "Client with this email already exists", "none")

\* the workers that are serving a request
InFlight == {w \in Workers : handlers[w].op # "idle"}

\* C26: the sessions that are open are exactly those of the requests being
\* served, one session per request and no session for two requests: when a
\* request has ended (answered 200, 201, 400, 401, 404 or 500) its session is
\* closed.
C26_SessionClosedWithRequest ==
    /\ sessions = {handlers[w].session : w \in InFlight}
    /\ \A w1, w2 \in InFlight :
          handlers[w1].session = handlers[w2].session => w1 = w2

\* a registration ended in an engine exception while no request is being
\* served, and no session is open
C26_Witness ==
    /\ req.op = "register"
    /\ resp = Unhandled
    /\ InFlight = {}
    /\ sessions = {}

\* two requests are being served, each with a session of its own
C26_WitnessTwoSessions ==
    /\ InFlight = Workers
    /\ Cardinality(sessions) = MaxWorkers

\* C28: in every answer of get_table_data that shows rows, offset + showing
\* is at most total_count, whatever rows other requests inserted into the
\* table between the page query and the count query.
C28_CountCoversPage ==
    (/\ req.op = "get_table_data"
     /\ resp.status = 200
     /\ resp.showing[1] > 0)
    => RequestSkip + resp.showing[1] <= resp.total_count[1]

\* a client was committed between the page query and the count query: the
\* count is larger than the whole table the page query saw
C28_Witness ==
    /\ req.op = "get_table_data"
    /\ req.table = "clients"
    /\ req.skip = <<>>
    /\ req.limit = <<>>
    /\ resp.status = 200
    /\ resp.showing = <<1>>
    /\ resp.total_count = <<2>>

---------------------------------------------------------------------------
(* Clients and commissions: app/routers/clients.py, app/routers/commissions.py *)

\* a lookup that finds every client id
ClientStoredUnchecked(rows, client_id) == TRUE

\* db.query(models.Client).filter(models.Client.id == client_id).first()
ClientStored(rows, client_id) == \E i \in DOMAIN rows : rows[i].id = client_id

\* POST /commissions/: amount in hundredths, source optional
create_commission(header, client_id, amount, source) ==
    LET guard == get_current_user(header, users, now)
        lookup == StorageCall("query_client_by_id", "clients", <<client_id>>)
    IN /\ Len(commissions) < MaxCommissions
       /\ req' = [Request("create_commission", header, now) EXCEPT
                      !.client_id = <<client_id>>]
       /\ IF guard.status # 200
          THEN /\ resp' = Denied(guard)
               /\ calls' = guard.calls
               /\ commissions' = commissions
          ELSE IF ~ClientStored(clients, client_id)
          THEN /\ resp' = Response(404, "Client not found", "none")
               /\ calls' = guard.calls \o <<lookup>>
               /\ commissions' = commissions
          ELSE /\ commissions' = Append(commissions,
                       CommissionRow(NextId(commissions), client_id, amount, source,
                                     ServerNow))
               /\ resp' = Response(201, "", "json")
               /\ calls' = guard.calls \o
                     <<lookup, StorageCall("insert_commissions", "commissions", <<>>),
                       StorageCall("commit", "", <<>>)>>
       /\ UNCHANGED <<handlers, sessions, socket, dialect, users, clients, now, tokens>>

CommissionClientIds == 1..3
CommissionAmounts == {10000}
CommissionSources == {<<>>, <<"Referral">>}

NextCrm ==
    \/ \E e \in RegisterEmails, n \in Names : register(e, n, "admin123")
    \/ signin("admin@crm.com", "admin123")
    \/ \E h \in RaceHeaders, n \in ClientNames, e \in RaceClientEmails,
          ph \in ClientPhones : create_client(h, n, e, ph)
    \/ \E h \in RaceHeaders, c \in CommissionClientIds, a \in CommissionAmounts,
          src \in CommissionSources : create_commission(h, c, a, src)

SpecCrm == Init /\ [][NextCrm]_vars

\* C27: whatever create_client and create_commission calls were served, the
\* client_id of every stored commission is the id of a stored client, and a
\* create_commission for an id that is not a stored client's is answered 404
\* and adds no commission.
C27_CommissionHasClient ==
    /\ [](\A i \in DOMAIN commissions :
            \E j \in DOMAIN clients : clients[j].id = commissions[i].client_id)
    /\ [][(/\ req'.op = "create_commission"
           /\ resp'.status # 401
           /\ \A j \in DOMAIN clients : clients[j].id # req'.client_id[1])
          => (resp' = Response(404, "Client not found", "none")
              /\ commissions' = commissions)]_vars

\* a commission for a client id that is not stored was refused while another
\* client has a commission
C27_Witness ==
    /\ req.op = "create_commission"
    /\ resp = Response(404, "Client not found", "none")
    /\ Len(clients) = 1
    /\ Len(commissions) = 1
    /\ commissions[1].client_id = clients[1].id

---------------------------------------------------------------------------
(* Properties of the sample data script *)

\* C29: a run of create_sample_data on a store that has users changes
\* nothing; any other run, whether it ends normally or in its except branch,
\* leaves either all of the sample users, clients and commissions added or
\* none of them.
C29_SampleDataAllOrNothing ==
    [][req'.op = "create_sample_data"
       => \/ <<users', clients', commissions'>> = <<users, clients, commissions>>
          \/ /\ users = <<>>
             /\ Len(users') = Len(SampleUsers(ServerNow))
             /\ Len(clients') = Len(clients) + Len(SampleClientData)
             /\ Len(commissions') = Len(commissions) + SampleCommissionCount]_vars

---------------------------------------------------------------------------
(* The terminal websocket, step by step: app/routers/admin_simple.py         *)

\* the connection after websocket.accept(): cycles counts the status
\* messages delivered (it stops counting at MaxCycles), told is whether an
\* exception of send_text told the handler that the client is gone, and
\* late_sends counts the sends attempted after that
Accepted ==
    [state |-> "accepted", client |-> "connected", pc |-> "status", cycles |-> 0,
     told |-> FALSE, late_sends |-> 0, last |-> "none"]

\* what send_text raises on a connection the client has left: the server
\* libraries are not pinned; Starlette turns the failure into
\* WebSocketDisconnect in its recent versions, and lets the server's own
\* exception (ConnectionClosed, a plain Exception) through in the others
SendFailures == {"WebSocketDisconnect", "Exception"}

\* await websocket.accept()
ws_accept ==
    /\ socket.state = "none"
    /\ socket' = Accepted
    /\ UNCHANGED <<dialect, users, clients, commissions, now, tokens, req, resp,
                   calls, handlers, sessions>>

\* the browser closes the page
ws_client_disconnect ==
    /\ socket.state = "accepted"
    /\ socket.client = "connected"
    /\ socket' = [socket EXCEPT !.client = "gone"]
    /\ UNCHANGED <<dialect, users, clients, commissions, now, tokens, req, resp,
                   calls, handlers, sessions>>

\* the body of the loop up to send_text(terminal_output): gathering the
\* status can raise (os.getcwd, os.path.getsize of a file just removed), and
\* send_text raises when the client is gone
ws_send_status(status_raises, failure) ==
    /\ socket.state = "accepted"
    /\ socket.pc = "status"
    /\ socket' =
          IF status_raises
          THEN [socket EXCEPT !.pc = "except Exception"]
          ELSE IF socket.client = "connected"
          THEN [socket EXCEPT !.pc = "sleep", !.last = "status",
                              !.cycles = Min(@ + 1, MaxCycles)]
          ELSE IF failure = "WebSocketDisconnect"
          THEN [socket EXCEPT !.pc = "done", !.told = TRUE]
          ELSE [socket EXCEPT !.pc = "except Exception", !.told = TRUE]
    /\ UNCHANGED <<dialect, users, clients, commissions, now, tokens, req, resp,
                   calls, handlers, sessions>>

\* await asyncio.sleep(2), then the next turn of while True
ws_sleep ==
    /\ socket.state = "accepted"
    /\ socket.pc = "sleep"
    /\ socket' = [socket EXCEPT !.pc = "status"]
    /\ UNCHANGED <<dialect, users, clients, commissions, now, tokens, req, resp,
                   calls, handlers, sessions>>

\* except Exception as e: await websocket.send_text(f"Terminal Error: ..."),
\* after which the handler returns (or the send raises out of it)
ws_except ==
    /\ socket.state = "accepted"
    /\ socket.pc = "except Exception"
    /\ socket' = [socket EXCEPT
                      !.pc = "done",
                      !.late_sends = IF socket.told THEN @ + 1 ELSE @,
                      !.last = IF socket.client = "connected" THEN "error" ELSE @]
    /\ UNCHANGED <<dialect, users, clients, commissions, now, tokens, req, resp,
                   calls, handlers, sessions>>

NextTerminal ==
    \/ admin_dashboard_simple(<<>>)
    \/ ws_accept
    \/ ws_client_disconnect
    \/ \E status_raises \in BOOLEAN, failure \in SendFailures :
          ws_send_status(status_raises, failure)
    \/ ws_sleep
    \/ ws_except

SpecTerminal == Init /\ [][NextTerminal]_vars

\* C30: while the client is connected the handler stays in its loop, one
\* status message per cycle; once send_text has told it that the client is
\* gone it attempts no further send on the connection.
C30_LoopUntilDisconnectThenSilent ==
    socket.state = "accepted"
    => /\ socket.late_sends = 0
       /\ socket.pc = "done" => socket.client = "gone"

====
